---- MODULE Spec2Model ----
(***************************************************************************)
(* Inbound message processing core of chatbot-leads-startfranchise.        *)
(*                                                                         *)
(* The model follows handleInboundMessage (message handler), the Redis     *)
(* helpers (idempotency keys, per-user lock, cooldown), the BullMQ queues  *)
(* and the lead service on PostgreSQL.  One handler invocation is a        *)
(* process; every await on Redis or PostgreSQL is a step boundary.         *)
(*                                                                         *)
(* PostgreSQL is modelled at READ COMMITTED: statements issued on the      *)
(* transaction client are buffered in tx[p] and become visible at COMMIT;  *)
(* statements issued through the pool (query()) autocommit at once.  An    *)
(* UPDATE or SELECT ... FOR UPDATE of a lead row takes that row's lock     *)
(* until the transaction ends.  lead_form_data is modelled with one row    *)
(* per lead, written under the lead row lock.                              *)
(*                                                                         *)
(* Failures (a statement or a Redis command that throws, a lock key that   *)
(* reaches its TTL under its holder) are taken at most MaxFaults times in  *)
(* a run.                                                                  *)
(***************************************************************************)
EXTENDS Integers, Sequences, FiniteSets, TLC

\* ------------------------------------------------------------------ bounds
NumInv == 2

\* failures taken in one run: a statement or command that throws, a lock key
\* that expires under its holder
MaxFaults == 1

Procs == 1..NumInv

Users == {"u1"}

\* the values of leads.user_id: the phone id of the user and the linked
\* device id (LID) under which WhatsApp may also deliver the user's messages
UserIds == Users \cup {"l1"}

\* --------------------------------------------------------------- constants
MAX_RETRIES == 3

MAX_WARNINGS == 3

Null == ""

\* ------------------------------------------------------------ state machine
LeadStates ==
  {"NEW", "EXISTING", "CHOOSE_OPTION", "FORM_SENT", "FORM_IN_PROGRESS",
   "FORM_COMPLETED", "MANUAL_INTERVENTION", "PARTNERSHIP"}

validTransitions ==
  [s \in LeadStates |->
     CASE s = "NEW" -> {"CHOOSE_OPTION", "MANUAL_INTERVENTION"}
       [] s = "EXISTING" -> {}
       [] s = "CHOOSE_OPTION" -> {"FORM_SENT", "PARTNERSHIP", "MANUAL_INTERVENTION"}
       [] s = "FORM_SENT" -> {"FORM_IN_PROGRESS", "MANUAL_INTERVENTION"}
       [] s = "FORM_IN_PROGRESS" -> {"FORM_COMPLETED", "FORM_SENT", "MANUAL_INTERVENTION"}
       [] s = "FORM_COMPLETED" -> {"MANUAL_INTERVENTION", "PARTNERSHIP"}
       [] s = "MANUAL_INTERVENTION" -> {"NEW", "CHOOSE_OPTION", "FORM_SENT", "PARTNERSHIP"}
       [] s = "PARTNERSHIP" -> {"MANUAL_INTERVENTION"}]

\* a transition check that has lost its table
isValidTransition_Any(from, to) == from \in LeadStates

isValidTransition(from, to) ==
  /\ from \in LeadStates
  /\ to \in validTransitions[from]

noReplyStates == {"EXISTING", "MANUAL_INTERVENTION", "FORM_COMPLETED", "PARTNERSHIP"}

\* a reply check that has lost FORM_COMPLETED from its list
shouldBotReply_Completed(state) == state \notin noReplyStates \ {"FORM_COMPLETED"}

shouldBotReply(state) == state \notin noReplyStates

\* ------------------------------------------------------------ form validator
FormFields == {"biodata", "source_info", "business_type", "budget", "start_plan"}

TextFull == "Nama, Domisili: Budi, Jakarta / Sumber info: Instagram / Jenis bisnis: F&B / Budget: 100 juta / Rencana mulai: 3 bulan lagi"

TextNoBio == "Sumber info: Google / Jenis bisnis: Retail / Budget: 50 juta / Rencana mulai: segera"

TextBio == "Nama, Domisili: Budi, Jakarta"

\* parseFormData on the message bodies of the catalogue (" / " stands for a
\* line break); the other bodies match no label pattern and no keyword.
parseFormData(text) ==
  CASE text = TextFull ->
         [biodata |-> "Budi, Jakarta", source_info |-> "Instagram",
          business_type |-> "F&B", budget |-> "100 juta",
          start_plan |-> "3 bulan lagi"]
    [] text = TextNoBio ->
         [source_info |-> "Google", business_type |-> "Retail",
          budget |-> "50 juta", start_plan |-> "segera"]
    [] text = TextBio -> [biodata |-> "Budi, Jakarta"]
    [] OTHER -> [k \in {} |-> Null]

Get(data, k) == IF k \in DOMAIN data THEN data[k] ELSE Null

NoForm ==
  [present |-> FALSE, biodata |-> Null, source_info |-> Null,
   business_type |-> Null, budget |-> Null, start_plan |-> Null,
   completed |-> FALSE]

\* { ...existingData, ...formData } followed by the required-fields check
validateFormData(formData, existingData) ==
  LET mergedData == [k \in FormFields |->
                       IF Get(formData, k) # Null THEN formData[k]
                       ELSE existingData[k]]
      errors == {k \in FormFields : mergedData[k] = Null}
  IN [valid |-> errors = {}, parsedData |-> mergedData, errors |-> errors]

COALESCE(a, b) == IF a # Null THEN a ELSE b

upsertFormData(row, data) ==
  IF row.present
  THEN [row EXCEPT
          !.source_info = COALESCE(Get(data, "source_info"), @),
          !.business_type = COALESCE(Get(data, "business_type"), @),
          !.budget = COALESCE(Get(data, "budget"), @),
          !.start_plan = COALESCE(Get(data, "start_plan"), @),
          !.completed = IF "completed" \in DOMAIN data THEN data.completed ELSE @]
  ELSE [present |-> TRUE, biodata |-> Null,
        source_info |-> Get(data, "source_info"),
        business_type |-> Get(data, "business_type"),
        budget |-> Get(data, "budget"),
        start_plan |-> Get(data, "start_plan"),
        completed |-> IF "completed" \in DOMAIN data THEN data.completed ELSE FALSE]

\* ------------------------------------------------------------------ messages
Msg(id, text, fromMe) ==
  [source |-> "whatsapp", messageId |-> id, userId |-> "u1", text |-> text,
   fromMe |-> fromMe, pushName |-> "Budi", lid |-> Null, secret |-> TRUE,
   event |-> "message"]

NoMsg == Msg(Null, Null, FALSE)

\* the WAHA route checks x-webhook-secret for 'message' events only: a
\* 'message.any' event has been handled and answered before the check
unauthorized(m) == m.source = "whatsapp" /\ m.event = "message" /\ ~m.secret

getIdempotencyKey(m) == <<"processed", m.source, m.messageId>>

\* --------------------------------------------------------------------- rows
NoLead ==
  [present |-> FALSE, state |-> "NONE", warning_count |-> 0, push_name |-> Null,
   alt_id |-> Null]

LeadRow(state, wc, name) ==
  [present |-> TRUE, state |-> state, warning_count |-> wc, push_name |-> name,
   alt_id |-> Null]

NoTx ==
  [lead |-> NoLead, leadW |-> FALSE, form |-> NoForm, formW |-> FALSE,
   inter |-> {}, hops |-> <<>>]

NoValidation == [valid |-> FALSE, parsedData |-> [k \in FormFields |-> Null], errors |-> {}]

NoResult ==
  [returned |-> FALSE, success |-> FALSE, shouldReply |-> FALSE,
   replyMessage |-> Null, secondaryMessage |-> Null, error |-> Null]

Result(success, shouldReply, reply, secondary, error) ==
  [returned |-> TRUE, success |-> success, shouldReply |-> shouldReply,
   replyMessage |-> reply, secondaryMessage |-> secondary, error |-> error]

\* the handler has thrown instead of returning a result
Thrown ==
  [returned |-> FALSE, success |-> FALSE, shouldReply |-> FALSE,
   replyMessage |-> Null, secondaryMessage |-> Null, error |-> "thrown"]

NoHist ==
  [persisted |-> {}, lockLost |-> FALSE, relSaw |-> -1, outcome |-> "none",
   cdSet |-> FALSE, idemDown |-> FALSE, http |-> 0, ok |-> FALSE, sent |-> <<>>]

VARIABLES
  inbox,          \* the requests the server receives (and may receive again)
  processed,      \* Redis: keys processed:{source}:{messageId}
  lock,           \* Redis: lock:user:{userId} -> lock value, 0 when absent
  cooldown,       \* Redis: cooldown:{userId} exists
  sheetsQueue,    \* BullMQ queue sheets-sync
  notifyQueue,    \* BullMQ queue telegram-notify
  leads,          \* table leads (committed rows), by user_id
  forms,          \* table lead_form_data (committed rows), by lead
  interactions,   \* table lead_interactions (committed rows)
  rowLock,        \* row lock on a lead row: holding invocation, 0 when free
  pc,             \* position of each handler invocation
  msg,            \* the InboundMessage of each invocation
  attempt,        \* acquireLockWithRetry: failed attempts of the running loop
  lockValue,      \* lockResult.lockValue, 0 when none
  lead,           \* the lead returned by getOrCreateLead
  validation,     \* the result of validateFormData while handleFormState runs
  tx,             \* uncommitted writes of the invocation's transaction
  result,         \* the MessageHandlerResult
  faults,         \* failures taken so far
  hist            \* history of each invocation (not program state)

vars ==
  <<inbox, processed, lock, cooldown, sheetsQueue, notifyQueue, leads, forms,
    interactions, rowLock, pc, msg, attempt, lockValue, lead, validation,
    tx, result, faults, hist>>

redisVars == <<processed, lock, cooldown, sheetsQueue, notifyQueue>>

dbVars == <<leads, forms, interactions, rowLock>>

localVars == <<inbox, faults, msg, attempt, lockValue, lead, validation, tx, result>>

\* A run starts from a stored lead (with its form row) and the requests
\* that then arrive: messages of the user, a message of the operator to the
\* user, a request of the operator on an admin route.  Every row below is
\* one the handler itself stores (or, for EXISTING and PARTNERSHIP,
\* markAsExisting and the admin state change store).
Scenario(row, form, first, second) ==
  [lead |-> row, lidLead |-> NoLead, form |-> form, inbox |-> {first, second},
   inter |-> {}]

In(id, text) == Msg(id, text, FALSE)

Out(id, text) == Msg(id, text, TRUE)

\* a request of the operator on an admin route, written as a record of the
\* shape of a message: the route, the user of the lead, the requested state
Admin(route, state) ==
  [source |-> "admin", messageId |-> route, userId |-> "u1", text |-> state,
   fromMe |-> FALSE, pushName |-> Null, lid |-> Null, secret |-> TRUE,
   event |-> "message"]

\* a message that carries both the phone id (userId) and the LID
\* (metadata.lid) of its sender
InLid(id, text) == [In(id, text) EXCEPT !.lid = "l1"]

\* a message that arrives on the Telegram webhook
TIn(id, text) == [In(id, text) EXCEPT !.source = "telegram"]

\* a WAHA message request whose x-webhook-secret header is not the
\* configured WAHA_WEBHOOK_SECRET
BadSecret(id, text) == [In(id, text) EXCEPT !.secret = FALSE]

\* a WAHA 'message.any' request for a message of ours, sent without the
\* configured secret
OutAny(id, text) == [Out(id, text) EXCEPT !.event = "message.any", !.secret = FALSE]

Scenarios ==
  {Scenario(NoLead, NoForm, In("m1", "Halo"), In("m2", "1")),
   Scenario(NoLead, NoForm, OutAny("m1", "Halo"), In("m2", "Halo")),
   Scenario(LeadRow("CHOOSE_OPTION", 0, Null), NoForm, TIn("m1", "1"), TIn("m2", " 2 ")),
   Scenario(LeadRow("CHOOSE_OPTION", 1, "Budi"), NoForm, In("m1", "Halo"), In("m2", "Halo")),
   Scenario(LeadRow("CHOOSE_OPTION", 2, "Budi"), NoForm, In("m1", "Halo"), In("m2", "3")),
   Scenario(LeadRow("MANUAL_INTERVENTION", 3, "Budi"), NoForm,
            Admin("PUT /leads/:id", "CHOOSE_OPTION"), In("m1", "Halo")),
   Scenario(LeadRow("MANUAL_INTERVENTION", 3, "Budi"), NoForm,
            Admin("PUT /leads/:id/state", "CHOOSE_OPTION"), In("m1", "Halo")),
   Scenario(LeadRow("FORM_SENT", 0, "Budi"), NoForm, In("m1", TextBio), In("m2", TextNoBio)),
   Scenario(LeadRow("FORM_SENT", 2, "Budi"), NoForm, In("m1", TextFull), In("m2", "Halo")),
   Scenario(LeadRow("EXISTING", 0, Null), NoForm, In("m1", "Halo"), In("m2", "1")),
   Scenario(LeadRow("MANUAL_INTERVENTION", 0, "Budi"), NoForm,
            In("m1", "Halo"), In("m2", "1")),
   Scenario(LeadRow("FORM_COMPLETED", 0, "Budi"), NoForm, In("m1", "Halo"), In("m2", "1")),
   Scenario(LeadRow("PARTNERSHIP", 0, "Budi"), NoForm, In("m1", "Halo"), In("m2", "1")),
   \* a lead stored under the LID of the user (by a message that carried no
   \* phone id, stored with it as the lead's first interaction), who now
   \* writes with both ids
   [lead |-> NoLead, lidLead |-> LeadRow("CHOOSE_OPTION", 0, "Budi"), form |-> NoForm,
    inbox |-> {InLid("m1", "1"), BadSecret("m2", "Halo")},
    inter |-> {[user |-> "l1", message_id |-> "m0", direction |-> "in", inv |-> 0]}]}

Init ==
  /\ \E sc \in Scenarios :
       /\ inbox = sc.inbox
       /\ leads = [u \in UserIds |-> IF u \in Users THEN sc.lead ELSE sc.lidLead]
       /\ forms = [u \in Users |-> sc.form]
       /\ interactions = sc.inter
  /\ processed = {}
  /\ lock = [u \in Users |-> 0]
  /\ cooldown = [u \in Users |-> FALSE]
  /\ sheetsQueue = {}
  /\ notifyQueue = {}
  /\ rowLock = [u \in Users |-> 0]
  /\ pc = [p \in Procs |-> "idle"]
  /\ msg = [p \in Procs |-> NoMsg]
  /\ attempt = [p \in Procs |-> 0]
  /\ lockValue = [p \in Procs |-> 0]
  /\ lead = [p \in Procs |-> NoLead]
  /\ validation = [p \in Procs |-> NoValidation]
  /\ tx = [p \in Procs |-> NoTx]
  /\ result = [p \in Procs |-> NoResult]
  /\ faults = 0
  /\ hist = [p \in Procs |-> NoHist]

\* ------------------------------------------------- handleInboundMessage steps
\* an EXISTS that never finds the key
isMessageProcessed_Never(key) == FALSE

\* isMessageProcessed: EXISTS on the processed key
isMessageProcessed(key) == key \in processed

\* a check that treats an unreachable store as "already processed"
checkIdempotency_FailClosed(key, up) == IF up THEN isMessageProcessed(key) ELSE TRUE

\* checkIdempotency: isMessageProcessed inside try/catch; when the command
\* rejects (up = FALSE) the error is logged and the answer is false
checkIdempotency(key, up) == IF up THEN isMessageProcessed(key) ELSE FALSE

\* A webhook delivery starts an invocation.  The WAHA controller hands an
\* outgoing message to processOutgoingWebhook and an incoming one, if it
\* carries the configured secret, to processWAHAWebhook, whose
\* validateMessage lets no fromMe message through to handleInboundMessage.
\* 1. checkIdempotency, with Redis answering (up) or not
CheckIdempotencyOn(p, up) ==
  /\ pc[p] = "idle"
  /\ \A q \in Procs : q < p => pc[q] # "idle"
  /\ \E m \in inbox :
       /\ m.source # "admin" /\ ~m.fromMe /\ ~unauthorized(m)
       /\ msg' = [msg EXCEPT ![p] = m]
       /\ IF checkIdempotency(getIdempotencyKey(m), up)
          THEN /\ result' = [result EXCEPT ![p] = Result(TRUE, FALSE, Null, Null, Null)]
               /\ pc' = [pc EXCEPT ![p] = "done"]
               /\ hist' = [hist EXCEPT
                             ![p].outcome =
                               IF \E q \in Procs : q # p /\ msg[q] = m /\ pc[q] = "done"
                               THEN "replay" ELSE "duplicate",
                             ![p].idemDown = ~up]
          ELSE /\ pc' = [pc EXCEPT ![p] = "mark"]
               /\ hist' = [hist EXCEPT ![p].idemDown = ~up]
               /\ UNCHANGED result
  /\ UNCHANGED <<inbox, redisVars, dbVars, attempt, lockValue, lead, validation, tx>>

\* 1. checkIdempotency -> isMessageProcessed (EXISTS)
CheckIdempotency(p) ==
  /\ CheckIdempotencyOn(p, TRUE)
  /\ UNCHANGED faults

\* 2. markAsProcessed -> markMessageProcessed (SETEX)
MarkAsProcessed(p) ==
  /\ pc[p] = "mark"
  /\ processed' = processed \cup {getIdempotencyKey(msg[p])}
  /\ pc' = [pc EXCEPT ![p] = "cooldown"]
  /\ UNCHANGED <<lock, cooldown, sheetsQueue, notifyQueue, dbVars, localVars, hist>>

\* 3. isUserInCooldown (EXISTS)
IsUserInCooldown(p) ==
  /\ pc[p] = "cooldown"
  /\ pc' = [pc EXCEPT ![p] = IF cooldown[msg[p].userId] THEN "cdlog" ELSE "lock"]
  /\ UNCHANGED <<redisVars, dbVars, localVars, hist>>

\* ------------------------------------------------------------- lead service
\* a lookup that stores a fresh row over the one it finds
getOrCreateLead_Reset(row, m, withOptions) ==
  LeadRow("NEW", 0, IF withOptions THEN m.pushName ELSE Null)

\* getOrCreateLead: every statement goes through the pool (autocommit).
\* withOptions is FALSE for the call that passes no options.  row is what
\* getLeadByUserId finds for the message's userId: the row with that user_id
\* (the lookup by alt_id is made only for a userId in LID format, and a
\* message that carries a phone id has the phone id as its userId).
getOrCreateLead(row, m, withOptions) ==
  IF ~row.present
  THEN [LeadRow("NEW", 0, IF withOptions THEN m.pushName ELSE Null)
          EXCEPT !.alt_id = IF withOptions THEN m.lid ELSE Null]
  ELSE IF withOptions
       THEN [row EXCEPT
               !.push_name = IF m.pushName # Null /\ @ # m.pushName THEN m.pushName ELSE @,
               !.alt_id = IF m.lid # Null /\ @ = Null THEN m.lid ELSE @]
       ELSE row

\* markAsExisting, through the pool, after getLeadByUserId has returned read;
\* row is the stored row when the second statement runs.  No lead read:
\* createLead in EXISTING (the INSERT throws on the UNIQUE user_id when a row
\* has appeared).  A NEW lead read: UPDATE ... SET state = EXISTING WHERE id.
\* Any other state read: nothing.
markAsExisting(read, row) ==
  IF ~read.present
  THEN IF row.present THEN [row |-> row, threw |-> TRUE]
       ELSE [row |-> LeadRow("EXISTING", 0, Null), threw |-> FALSE]
  ELSE IF read.state = "NEW" /\ row.present
       THEN [row |-> [row EXCEPT !.state = "EXISTING"], threw |-> FALSE]
       ELSE [row |-> row, threw |-> FALSE]

\* a migration that starts the lead over
resolveAuthId_Reset(tbl, inter, userId, altId) ==
  IF altId = Null THEN [leads |-> tbl, interactions |-> inter]
  ELSE IF tbl[userId].present /\ tbl[altId].present
  THEN [leads |-> [tbl EXCEPT ![userId].alt_id = IF @ = Null THEN altId ELSE @,
                              ![altId] = NoLead],
        interactions |-> {i \in inter : i.user # altId}]
  ELSE IF tbl[altId].present
  THEN [leads |-> [tbl EXCEPT ![userId] = [tbl[altId] EXCEPT !.alt_id = altId, !.state = "NEW"],
                              ![altId] = NoLead],
        interactions |-> {[i EXCEPT !.user = IF @ = altId THEN userId ELSE @] : i \in inter}]
  ELSE [leads |-> tbl, interactions |-> inter]

\* resolveAuthId(userId, altId) on the stored leads and interactions.  A row
\* of lead_interactions belongs to its lead by lead_id (user holds the
\* user_id of that lead): it follows the lead when the lead's user_id is
\* rewritten and is deleted with it (ON DELETE CASCADE).
resolveAuthId(tbl, inter, userId, altId) ==
  IF altId = Null THEN [leads |-> tbl, interactions |-> inter]
  ELSE IF tbl[userId].present /\ tbl[altId].present
  THEN [leads |-> [tbl EXCEPT ![userId].alt_id = IF @ = Null THEN altId ELSE @,
                              ![altId] = NoLead],
        interactions |-> {i \in inter : i.user # altId}]
  ELSE IF tbl[altId].present
  THEN [leads |-> [tbl EXCEPT ![userId] = [tbl[altId] EXCEPT !.alt_id = altId],
                              ![altId] = NoLead],
        interactions |-> {[i EXCEPT !.user = IF @ = altId THEN userId ELSE @] : i \in inter}]
  ELSE [leads |-> tbl, interactions |-> inter]

Interaction(p, direction) ==
  [user |-> msg[p].userId, message_id |-> msg[p].messageId,
   direction |-> direction, inv |-> p]

\* A transaction context: the lead row as the transaction sees it, the
\* state changes it has made, and whether a statement has thrown.
Ctx(row, hops) == [row |-> row, hops |-> hops, threw |-> FALSE]

\* an update that skips an invalid transition instead of raising
updateLeadState_Silent(ctx, newState) ==
  IF ctx.threw \/ ~ctx.row.present THEN ctx
  ELSE IF isValidTransition(ctx.row.state, newState)
       THEN [ctx EXCEPT !.row.state = newState,
                        !.hops = Append(@, <<ctx.row.state, newState>>)]
       ELSE ctx

\* updateLeadState on the transaction client: SELECT ... FOR UPDATE,
\* attemptTransition, UPDATE
updateLeadState(ctx, newState) ==
  IF ctx.threw \/ ~ctx.row.present THEN ctx
  ELSE IF isValidTransition(ctx.row.state, newState)
       THEN [ctx EXCEPT !.row.state = newState,
                        !.hops = Append(@, <<ctx.row.state, newState>>)]
       ELSE [ctx EXCEPT !.threw = TRUE]

\* try { updateLeadState } catch { log }
tryUpdateLeadState(ctx, newState) ==
  LET r == updateLeadState(ctx, newState)
  IN IF r.threw /\ ~ctx.threw THEN ctx ELSE r

\* an increment by two
incrementWarningCount_Twice(ctx) ==
  IF ctx.threw THEN ctx
  ELSE IF ~ctx.row.present THEN [ctx EXCEPT !.threw = TRUE]
  ELSE [ctx EXCEPT !.row.warning_count = @ + 2]

incrementWarningCount(ctx) ==
  IF ctx.threw THEN ctx
  ELSE IF ~ctx.row.present THEN [ctx EXCEPT !.threw = TRUE]
  ELSE [ctx EXCEPT !.row.warning_count = @ + 1]

\* ------------------------------------------------------------------- queues
\* a notification that is always filed as an escalation
NotifyJob_Escalation(type, l, m, reason, p) ==
  [type |-> "escalation", user |-> m.userId, inv |-> p, reason |-> reason,
   currentState |-> l.state, warningCount |-> l.warning_count]

NotifyJob(type, l, m, reason, p) ==
  [type |-> type, user |-> m.userId, inv |-> p, reason |-> reason,
   currentState |-> l.state, warningCount |-> l.warning_count]

SheetsJob(m, formData, p) ==
  [type |-> "sync-lead", user |-> m.userId, inv |-> p, formData |-> formData]

\* an enqueue that is held back and never reaches Redis
addJobs_Held(queue, jobs) == queue

\* queue.add: the job is in Redis as soon as the call returns
addJobs(queue, jobs) == queue \cup jobs

\* the id that addTelegramNotifyJob / addSheetsSyncJob give the job they
\* add at clock reading now (Date.now(), in milliseconds)
jobId(j, now) ==
  IF j.type = "sync-lead" THEN <<"sheets", j.user, now>>
  ELSE <<"telegram", j.type, now>>

\* the jobs already queued whose id a job added now would repeat, when the
\* clock still reads what it read at their add
sameId(queue, j) == {k \in queue : jobId(k, 0) = jobId(j, 0)}

\* queue.add(name, data, {jobId}): BullMQ adds nothing when a job with that
\* id exists.  sameMs tells whether Date.now() reads the same millisecond as
\* at the adds before.
queueAdd(queue, jobs, sameMs) ==
  addJobs(queue, IF sameMs THEN {j \in jobs : sameId(queue, j) = {}} ELSE jobs)

JobsOf(p) == {j \in sheetsQueue \cup notifyQueue : j.inv = p}

\* ----------------------------------------------------------- state dispatch
Outcome(ctx, notify, reply, secondary) ==
  [ctx |-> ctx, notify |-> notify, reply |-> reply, secondary |-> secondary]

handleEscalation(ctx, l, m, reason, p) ==
  [ctx |-> tryUpdateLeadState(ctx, "MANUAL_INTERVENTION"),
   job |-> NotifyJob("escalation", l, m, reason, p)]

handleSpecialOption(ctx, l, m, type, p) ==
  [ctx |-> tryUpdateLeadState(ctx, "MANUAL_INTERVENTION"),
   job |-> NotifyJob(type, l, m, Null, p)]

handleNewState(ctx) ==
  Outcome(updateLeadState(ctx, "CHOOSE_OPTION"), {}, "WELCOME", Null)

\* a comparison of the text as it came
trim_Identity(text) == text

\* text.trim() on the bodies of the catalogue: " 2 " is the only one with
\* surrounding white space
trim(text) == IF text = " 2 " THEN "2" ELSE text

handleChooseOptionState(ctx, l, m, p) ==
  IF trim(m.text) = "1"
  THEN Outcome(updateLeadState(ctx, "FORM_SENT"), {}, "CHOOSE_OPTION", "FORM_TEMPLATE")
  ELSE IF trim(m.text) = "2"
  THEN LET r == handleSpecialOption(ctx, l, m, "partnership_interest", p)
       IN Outcome(r.ctx, {r.job}, "PARTNERSHIP", Null)
  ELSE IF trim(m.text) = "3"
  THEN LET r == handleSpecialOption(ctx, l, m, "other_needs", p)
       IN Outcome(r.ctx, {r.job}, "OTHER_NEEDS", Null)
  ELSE LET c == incrementWarningCount(ctx)
       IN IF ~c.threw /\ c.row.warning_count >= MAX_WARNINGS
          THEN LET r == handleEscalation(c, l, m, "max_warnings", p)
               IN Outcome(r.ctx, {r.job}, "ESCALATION_NOTICE", Null)
          ELSE Outcome(c, {}, "INVALID_OPTION", Null)

\* handleFormState after validateFormData, for an incomplete form
handleFormInvalid(ctx, l, m, p) ==
  LET c == incrementWarningCount(ctx)
  IN IF ~c.threw /\ c.row.warning_count >= MAX_WARNINGS
     THEN LET r == handleEscalation(c, l, m, "max_warnings", p)
          IN Outcome(r.ctx, {r.job}, "ESCALATION_NOTICE", Null)
     ELSE Outcome(c, {}, "MISSING_FIELDS", Null)

handleCompletedState(ctx, l, m, p) ==
  LET r == handleEscalation(ctx, l, m, "post_form_contact", p)
  IN Outcome(r.ctx, {r.job}, "QUESTION_RECEIVED", Null)

handlePartnershipState(ctx, l, m, p) ==
  LET r == handleEscalation(ctx, l, m, "partnership_followup", p)
  IN Outcome(r.ctx, {r.job}, "QUESTION_RECEIVED", Null)

handleByState(ctx, l, m, p) ==
  CASE l.state = "NEW" -> handleNewState(ctx)
    [] l.state = "CHOOSE_OPTION" -> handleChooseOptionState(ctx, l, m, p)
    [] l.state = "FORM_COMPLETED" -> handleCompletedState(ctx, l, m, p)
    [] l.state = "PARTNERSHIP" -> handlePartnershipState(ctx, l, m, p)
    [] OTHER -> Outcome(ctx, {}, Null, Null)

FormStates == {"FORM_SENT", "FORM_IN_PROGRESS"}

\* states whose handler touches the lead row (UPDATE or SELECT FOR UPDATE)
LockingStates == {"NEW", "CHOOSE_OPTION", "FORM_SENT", "FORM_COMPLETED", "PARTNERSHIP"}

Persist(p, tags) == [hist EXCEPT ![p].persisted = @ \cup tags]

\* an error path that returns without going through the finally block
Rollback_NoFinally(p) ==
  /\ tx' = [tx EXCEPT ![p] = NoTx]
  /\ rowLock' = [rowLock EXCEPT ![msg[p].userId] = IF @ = p THEN 0 ELSE @]
  /\ result' = [result EXCEPT ![p] = Result(FALSE, FALSE, Null, Null, "error")]
  /\ pc' = [pc EXCEPT ![p] = "done"]
  /\ hist' = [hist EXCEPT ![p].outcome = "rollback"]

\* withTransaction's catch: ROLLBACK and rethrow, caught by the handler,
\* which returns the failure result and goes to its finally block
Rollback(p) ==
  /\ tx' = [tx EXCEPT ![p] = NoTx]
  /\ rowLock' = [rowLock EXCEPT ![msg[p].userId] = IF @ = p THEN 0 ELSE @]
  /\ result' = [result EXCEPT ![p] = Result(FALSE, FALSE, Null, Null, "error")]
  /\ pc' = [pc EXCEPT ![p] = "release"]
  /\ hist' = [hist EXCEPT ![p].outcome = "rollback"]

\* 3 (cooldown branch). log the interaction, do not respond: a short
\* transaction whose failure is swallowed.  getOrCreateLead gets no options.
CooldownLog(p) ==
  LET u == msg[p].userId
      new == getOrCreateLead(leads[u], msg[p], FALSE)
  IN /\ pc[p] = "cdlog"
     /\ leads' = [leads EXCEPT ![u] = new]
     /\ \E ok \in BOOLEAN :
          /\ ok \/ faults < MaxFaults
          /\ faults' = IF ok THEN faults ELSE faults + 1
          /\ interactions' = IF ok THEN interactions \cup {Interaction(p, "in")}
                             ELSE interactions
          /\ hist' = [hist EXCEPT
                        ![p].outcome = IF ok THEN "cooldown" ELSE "cooldown-failed",
                        ![p].persisted = @ \cup (IF new # leads[u] THEN {"lead"} ELSE {})
                                           \cup (IF ok THEN {"interaction"} ELSE {})]
     /\ result' = [result EXCEPT ![p] = Result(TRUE, FALSE, Null, Null, Null)]
     /\ pc' = [pc EXCEPT ![p] = "done"]
     /\ UNCHANGED <<inbox, redisVars, forms, rowLock, msg, attempt, lockValue, lead, validation, tx>>

\* processOutgoingWebhook up to the first statement of markAsExisting:
\* getLeadByUserId.  A lead read in a state other than NEW is returned as
\* it is.
ProcessOutgoingWebhook(p) ==
  /\ pc[p] = "idle"
  /\ \A q \in Procs : q < p => pc[q] # "idle"
  /\ \E m \in inbox :
       /\ m.fromMe /\ ~unauthorized(m)
       /\ msg' = [msg EXCEPT ![p] = m]
       /\ lead' = [lead EXCEPT ![p] = leads[m.userId]]
       /\ IF leads[m.userId].present /\ leads[m.userId].state # "NEW"
          THEN /\ pc' = [pc EXCEPT ![p] = "done"]
               /\ result' = [result EXCEPT ![p] = Result(TRUE, FALSE, Null, Null, Null)]
               /\ hist' = [hist EXCEPT ![p].outcome = "outgoing"]
          ELSE /\ pc' = [pc EXCEPT ![p] = "markexisting"]
               /\ UNCHANGED <<result, hist>>
  /\ UNCHANGED <<inbox, faults, redisVars, dbVars, attempt, lockValue, validation, tx>>

\* the second statement of markAsExisting (INSERT or UPDATE, through the
\* pool); processOutgoingWebhook catches what it throws
MarkAsExisting(p) ==
  LET u == msg[p].userId
      r == markAsExisting(lead[p], leads[u])
  IN /\ pc[p] = "markexisting"
     /\ lead[p].present => rowLock[u] = 0
     /\ leads' = [leads EXCEPT ![u] = r.row]
     /\ result' = [result EXCEPT ![p] =
                     IF r.threw THEN Result(FALSE, FALSE, Null, Null, "error")
                     ELSE Result(TRUE, FALSE, Null, Null, Null)]
     /\ lead' = [lead EXCEPT ![p] = IF r.threw THEN @ ELSE r.row]
     /\ hist' = [hist EXCEPT
                   ![p].outcome = IF r.threw THEN "outgoing-failed" ELSE "outgoing",
                   ![p].persisted = @ \cup (IF r.row # leads[u] THEN {"lead"} ELSE {})]
     /\ pc' = [pc EXCEPT ![p] = "done"]
     /\ UNCHANGED <<inbox, faults, redisVars, forms, interactions, rowLock, msg, attempt,
                    lockValue, validation, tx>>

\* a SET without NX
acquireLock_Overwrite(stored, value) == [acquired |-> TRUE, stored |-> value]

\* acquireLock: SET key value EX ttl NX
acquireLock(stored, value) ==
  [acquired |-> stored = 0, stored |-> IF stored = 0 THEN value ELSE stored]

\* a retry loop whose bound is off by one: it gives up after one attempt more
AcquireLock_OneMore(p) ==
  LET u == msg[p].userId
      r == acquireLock(lock[u], p)
  IN /\ pc[p] = "lock"
     /\ IF r.acquired
        THEN /\ lock' = [lock EXCEPT ![u] = r.stored]
             /\ lockValue' = [lockValue EXCEPT ![p] = p]
             /\ pc' = [pc EXCEPT ![p] = "getlead"]
             /\ attempt' = [attempt EXCEPT ![p] = 0]
             /\ UNCHANGED result
        ELSE /\ pc[lock[u]] \in {"release", "crashed"}
             /\ attempt' = [attempt EXCEPT ![p] = @ + 1]
             /\ IF attempt[p] + 1 <= MAX_RETRIES
                THEN UNCHANGED <<pc, result>>
                ELSE /\ result' = [result EXCEPT ![p] =
                                     Result(FALSE, FALSE, Null, Null, "Lock acquisition failed")]
                     /\ pc' = [pc EXCEPT ![p] = "done"]
             /\ UNCHANGED <<lock, lockValue>>
     /\ UNCHANGED <<inbox, faults, processed, cooldown, sheetsQueue, notifyQueue, dbVars, msg, lead, validation, tx, hist>>

\* 4. acquireLockWithRetry: one acquireLock per step; the lock value minted
\* by an invocation is modelled by the invocation's number.  A failed attempt
\* changes nothing but the attempt count and the holder keeps the key until
\* its releaseLock, so the failed attempts are taken when the holder is about
\* to release (or has crashed and will never release).
AcquireLock(p) ==
  LET u == msg[p].userId
      r == acquireLock(lock[u], p)
  IN /\ pc[p] = "lock"
     /\ IF r.acquired
        THEN /\ lock' = [lock EXCEPT ![u] = r.stored]
             /\ lockValue' = [lockValue EXCEPT ![p] = p]
             /\ pc' = [pc EXCEPT ![p] = "getlead"]
             /\ attempt' = [attempt EXCEPT ![p] = 0]
             /\ UNCHANGED result
        ELSE /\ pc[lock[u]] \in {"release", "crashed"}
             /\ attempt' = [attempt EXCEPT ![p] = @ + 1]
             /\ IF attempt[p] + 1 < MAX_RETRIES
                THEN UNCHANGED <<pc, result>>
                ELSE /\ result' = [result EXCEPT ![p] =
                                     Result(FALSE, FALSE, Null, Null, "Lock acquisition failed")]
                     /\ pc' = [pc EXCEPT ![p] = "done"]
             /\ UNCHANGED <<lock, lockValue>>
     /\ UNCHANGED <<inbox, faults, processed, cooldown, sheetsQueue, notifyQueue, dbVars, msg, lead, validation, tx, hist>>

\* 5. processMessage up to the reply check.  An outgoing message: markAsExisting
\* through the pool, addInteraction 'out' on the transaction client, no
\* reply.  An incoming one: getOrCreateLead through the pool, addInteraction
\* 'in' on the transaction client, shouldBotReply.
ProcessMessage(p) ==
  LET u == msg[p].userId
      new == IF msg[p].fromMe THEN markAsExisting(leads[u], leads[u]).row
             ELSE getOrCreateLead(leads[u], msg[p], TRUE)
      direction == IF msg[p].fromMe THEN "out" ELSE "in"
  IN /\ pc[p] = "getlead"
     /\ (leads[u].present /\ new # leads[u]) => rowLock[u] = 0
     /\ leads' = [leads EXCEPT ![u] = new]
     /\ lead' = [lead EXCEPT ![p] = new]
     /\ tx' = [tx EXCEPT ![p].inter = {Interaction(p, direction)}]
     /\ hist' = Persist(p, IF new # leads[u] THEN {"lead"} ELSE {})
     /\ IF ~msg[p].fromMe /\ shouldBotReply(new.state)
        THEN /\ pc' = [pc EXCEPT ![p] = "dispatch"]
             /\ UNCHANGED result
        ELSE /\ pc' = [pc EXCEPT ![p] = "commit"]
             /\ result' = [result EXCEPT ![p] = Result(TRUE, FALSE, Null, Null, Null)]
     /\ UNCHANGED <<inbox, faults, redisVars, forms, interactions, rowLock, msg, attempt, lockValue, validation>>

\* handleByState for the states other than the form states
HandleByStateAt(p, sameMs) ==
  LET u == msg[p].userId
      o == handleByState(Ctx(leads[u], <<>>), lead[p], msg[p], p)
  IN /\ pc[p] = "dispatch"
     /\ lead[p].state \notin FormStates
     /\ lead[p].state \in LockingStates => rowLock[u] \in {0, p}
     /\ IF o.ctx.threw
        THEN /\ Rollback(p)
             /\ UNCHANGED notifyQueue
        ELSE /\ tx' = [tx EXCEPT ![p].lead = o.ctx.row,
                                 ![p].leadW = lead[p].state \in LockingStates,
                                 ![p].hops = o.ctx.hops]
             /\ rowLock' = [rowLock EXCEPT ![u] =
                              IF lead[p].state \in LockingStates THEN p ELSE @]
             /\ notifyQueue' = queueAdd(notifyQueue, o.notify, sameMs)
             /\ result' = [result EXCEPT ![p] =
                             Result(TRUE, o.reply # Null, o.reply, o.secondary, Null)]
             /\ pc' = [pc EXCEPT ![p] = "commit"]
             /\ hist' = Persist(p, IF o.notify # {} THEN {"job"} ELSE {})
     /\ UNCHANGED <<inbox, faults, processed, lock, cooldown, sheetsQueue, leads, forms, interactions,
                    msg, attempt, lockValue, lead, validation>>

HandleByState(p) ==
  /\ pc[p] = "dispatch"
  /\ HandleByStateAt(p, FALSE)

\* the same step when the add falls into the millisecond of an earlier add
\* of a job of the same kind
HandleByStateSameMs(p) ==
  /\ pc[p] = "dispatch"
  /\ \E j \in handleByState(Ctx(leads[msg[p].userId], <<>>), lead[p], msg[p], p).notify :
       sameId(notifyQueue, j) # {}
  /\ HandleByStateAt(p, TRUE)

\* handleFormState, first half: FORM_SENT -> FORM_IN_PROGRESS, then
\* getLeadFormData (through the pool: committed rows), parseFormData and
\* validateFormData
HandleFormStateRead(p) ==
  LET u == msg[p].userId
      c == IF lead[p].state = "FORM_SENT"
           THEN updateLeadState(Ctx(leads[u], <<>>), "FORM_IN_PROGRESS")
           ELSE Ctx(leads[u], <<>>)
  IN /\ pc[p] = "dispatch"
     /\ lead[p].state \in FormStates
     /\ lead[p].state = "FORM_SENT" => rowLock[u] \in {0, p}
     /\ IF c.threw
        THEN /\ Rollback(p)
             /\ UNCHANGED validation
        ELSE /\ IF lead[p].state = "FORM_SENT"
                THEN /\ tx' = [tx EXCEPT ![p].lead = c.row, ![p].leadW = TRUE,
                                         ![p].hops = c.hops]
                     /\ rowLock' = [rowLock EXCEPT ![u] = p]
                ELSE UNCHANGED <<tx, rowLock>>
             /\ validation' = [validation EXCEPT ![p] =
                                 validateFormData(parseFormData(msg[p].text), forms[u])]
             /\ pc' = [pc EXCEPT ![p] = "formwrite"]
             /\ UNCHANGED <<result, hist>>
     /\ UNCHANGED <<inbox, faults, redisVars, leads, forms, interactions, msg, attempt, lockValue, lead>>

\* handleFormState, second half: upsertFormData, then either completion
\* (completed flag, FORM_COMPLETED, both jobs) or a warning
HandleFormStateWrite(p) ==
  LET u == msg[p].userId
      ctx == Ctx(IF tx[p].leadW THEN tx[p].lead ELSE leads[u], tx[p].hops)
      saved == upsertFormData(forms[u], parseFormData(msg[p].text))
      v == validation[p]
      done == updateLeadState(ctx, "FORM_COMPLETED")
      o == IF v.valid
           THEN Outcome(done, {NotifyJob("form_completed", lead[p], msg[p], Null, p)},
                        "FORM_RECEIVED", Null)
           ELSE handleFormInvalid(ctx, lead[p], msg[p], p)
      sheets == IF v.valid THEN {SheetsJob(msg[p], v.parsedData, p)} ELSE {}
  IN /\ pc[p] = "formwrite"
     /\ rowLock[u] \in {0, p}
     /\ IF o.ctx.threw
        THEN /\ Rollback(p)
             /\ UNCHANGED <<sheetsQueue, notifyQueue>>
        ELSE /\ tx' = [tx EXCEPT ![p].lead = o.ctx.row, ![p].leadW = TRUE,
                                 ![p].hops = o.ctx.hops,
                                 ![p].form = IF v.valid
                                             THEN upsertFormData(saved, [completed |-> TRUE])
                                             ELSE saved,
                                 ![p].formW = TRUE]
             /\ rowLock' = [rowLock EXCEPT ![u] = p]
             /\ sheetsQueue' = addJobs(sheetsQueue, sheets)
             /\ notifyQueue' = addJobs(notifyQueue, o.notify)
             /\ result' = [result EXCEPT ![p] = Result(TRUE, TRUE, o.reply, o.secondary, Null)]
             /\ pc' = [pc EXCEPT ![p] = "commit"]
             /\ hist' = Persist(p, IF sheets \cup o.notify # {} THEN {"job"} ELSE {})
     /\ validation' = [validation EXCEPT ![p] = NoValidation]
     /\ UNCHANGED <<inbox, faults, processed, lock, cooldown, leads, forms, interactions,
                    msg, attempt, lockValue, lead>>

\* withTransaction: COMMIT makes the buffered writes visible and ends the
\* row lock; the handler then goes on to the cooldown or to its finally block
Commit(p) ==
  LET u == msg[p].userId
      t == tx[p]
  IN /\ pc[p] = "commit"
     /\ leads' = IF t.leadW THEN [leads EXCEPT ![u] = t.lead] ELSE leads
     /\ forms' = IF t.formW THEN [forms EXCEPT ![u] = t.form] ELSE forms
     /\ interactions' = interactions \cup t.inter
     /\ rowLock' = [rowLock EXCEPT ![u] = IF @ = p THEN 0 ELSE @]
     /\ tx' = [tx EXCEPT ![p] = NoTx]
     /\ hist' = [hist EXCEPT
                   ![p].outcome = "commit",
                   ![p].persisted = @ \cup (IF t.inter # {} THEN {"interaction"} ELSE {})
                                      \cup (IF t.leadW /\ t.lead # leads[u] THEN {"lead"} ELSE {})
                                      \cup (IF t.formW /\ t.form # forms[u] THEN {"form"} ELSE {})]
     /\ pc' = [pc EXCEPT ![p] = IF result[p].shouldReply THEN "setcd" ELSE "release"]
     /\ UNCHANGED <<inbox, faults, redisVars, msg, attempt, lockValue, lead, validation, result>>

\* a statement on the transaction client, getMessage, or COMMIT itself
\* throws (connection loss, statement error, deadlock victim)
TxFail(p) ==
  /\ pc[p] \in {"getlead", "dispatch", "formwrite", "commit"}
  /\ faults < MaxFaults
  /\ faults' = faults + 1
  /\ Rollback(p)
  /\ validation' = [validation EXCEPT ![p] = NoValidation]
  /\ UNCHANGED <<inbox, redisVars, leads, forms, interactions, msg, attempt, lockValue, lead>>

\* queue.add throws inside the transaction (Redis unreachable): the error
\* leaves processMessage, withTransaction rolls back and the handler returns
\* the failure.  In handleFormState the sheets job is added before the
\* notification, so a failure of the second add leaves the first job queued.
EnqueueFail(p) ==
  LET u == msg[p].userId
      o == handleByState(Ctx(leads[u], <<>>), lead[p], msg[p], p)
      ctx == Ctx(IF tx[p].leadW THEN tx[p].lead ELSE leads[u], tx[p].hops)
      v == validation[p]
      f == IF v.valid THEN Outcome(updateLeadState(ctx, "FORM_COMPLETED"), {}, Null, Null)
           ELSE handleFormInvalid(ctx, lead[p], msg[p], p)
      sheets == {SheetsJob(msg[p], v.parsedData, p)}
  IN /\ faults < MaxFaults
     /\ faults' = faults + 1
     /\ \/ /\ pc[p] = "dispatch"
           /\ lead[p].state \notin FormStates
           /\ rowLock[u] \in {0, p}
           /\ ~o.ctx.threw /\ o.notify # {}
           /\ UNCHANGED sheetsQueue
           /\ hist' = [hist EXCEPT ![p].outcome = "rollback"]
        \/ /\ pc[p] = "formwrite"
           /\ rowLock[u] \in {0, p}
           /\ ~f.ctx.threw
           /\ IF v.valid
              THEN \E first \in BOOLEAN :
                     /\ sheetsQueue' = IF first THEN sheetsQueue
                                       ELSE addJobs(sheetsQueue, sheets)
                     /\ hist' = [hist EXCEPT
                                   ![p].outcome = "rollback",
                                   ![p].persisted = IF first THEN @ ELSE @ \cup {"job"}]
              ELSE /\ f.notify # {}
                   /\ UNCHANGED sheetsQueue
                   /\ hist' = [hist EXCEPT ![p].outcome = "rollback"]
     /\ tx' = [tx EXCEPT ![p] = NoTx]
     /\ rowLock' = [rowLock EXCEPT ![u] = IF @ = p THEN 0 ELSE @]
     /\ result' = [result EXCEPT ![p] = Result(FALSE, FALSE, Null, Null, "enqueue failed")]
     /\ pc' = [pc EXCEPT ![p] = "release"]
     /\ validation' = [validation EXCEPT ![p] = NoValidation]
     /\ UNCHANGED <<inbox, processed, lock, cooldown, notifyQueue, leads, forms, interactions,
                    msg, attempt, lockValue, lead>>

\* a SETEX that does not reach the key
setUserCooldown_Skip(cd, u) == cd

\* setUserCooldown: SETEX cooldown:{userId}
setUserCooldown(cd, u) == [cd EXCEPT ![u] = TRUE]

\* 6. setUserCooldown (SETEX) after a result with shouldReply; when the
\* command throws, the handler's catch replaces the result
SetUserCooldown(p) ==
  /\ pc[p] = "setcd"
  /\ \E ok \in BOOLEAN :
       IF ok
       THEN /\ cooldown' = setUserCooldown(cooldown, msg[p].userId)
            /\ hist' = [hist EXCEPT ![p].cdSet = cooldown'[msg[p].userId]]
            /\ UNCHANGED <<result, faults>>
       ELSE /\ faults < MaxFaults
            /\ faults' = faults + 1
            /\ result' = [result EXCEPT ![p] = Result(FALSE, FALSE, Null, Null, "error")]
            /\ UNCHANGED <<cooldown, hist>>
  /\ pc' = [pc EXCEPT ![p] = "release"]
  /\ UNCHANGED <<inbox, processed, lock, sheetsQueue, notifyQueue, dbVars, msg, attempt,
                 lockValue, lead, validation, tx>>

\* a plain DEL
releaseLock_Del(stored, value) == 0

\* releaseLock: the Lua script deletes the key only if it holds lockValue
releaseLock(stored, value) == IF stored = value THEN 0 ELSE stored

\* 7. finally: releaseLock(userId, lockResult.lockValue), then return
ReleaseLock(p) ==
  LET u == msg[p].userId
  IN /\ pc[p] = "release"
     /\ lock' = [lock EXCEPT ![u] = releaseLock(@, lockValue[p])]
     /\ hist' = [hist EXCEPT ![p].relSaw = lock[u]]
     /\ pc' = [pc EXCEPT ![p] = "done"]
     /\ UNCHANGED <<processed, cooldown, sheetsQueue, notifyQueue, dbVars, localVars>>

\* ------------------------------------------------------------- admin routes
\* PUT /api/admin/leads/:id with a state: UPDATE leads SET state = $1,
\* through the pool, with no transition check; warning_count stays
PutLead(p) ==
  /\ pc[p] = "idle"
  /\ \A q \in Procs : q < p => pc[q] # "idle"
  /\ \E m \in inbox :
       /\ m.source = "admin" /\ m.messageId = "PUT /leads/:id"
       /\ leads[m.userId].present
       /\ rowLock[m.userId] = 0
       /\ msg' = [msg EXCEPT ![p] = m]
       /\ leads' = [leads EXCEPT ![m.userId].state = m.text]
  /\ result' = [result EXCEPT ![p] = Result(TRUE, FALSE, Null, Null, Null)]
  /\ hist' = [hist EXCEPT ![p].outcome = "admin"]
  /\ pc' = [pc EXCEPT ![p] = "done"]
  /\ UNCHANGED <<inbox, faults, redisVars, forms, interactions, rowLock, attempt, lockValue,
                 lead, validation, tx>>

\* PUT /api/admin/leads/:id/state: UPDATE leads SET state = $1,
\* warning_count = 0, through the pool, with no transition check
PutLeadState(p) ==
  /\ pc[p] = "idle"
  /\ \A q \in Procs : q < p => pc[q] # "idle"
  /\ \E m \in inbox :
       /\ m.source = "admin" /\ m.messageId = "PUT /leads/:id/state"
       /\ leads[m.userId].present
       /\ rowLock[m.userId] = 0
       /\ msg' = [msg EXCEPT ![p] = m]
       /\ leads' = [leads EXCEPT ![m.userId].state = m.text,
                                 ![m.userId].warning_count = 0]
  /\ result' = [result EXCEPT ![p] = Result(TRUE, FALSE, Null, Null, Null)]
  /\ hist' = [hist EXCEPT ![p].outcome = "admin"]
  /\ pc' = [pc EXCEPT ![p] = "done"]
  /\ UNCHANGED <<inbox, faults, redisVars, forms, interactions, rowLock, attempt, lockValue,
                 lead, validation, tx>>

\* ------------------------------------------------------- identity resolution
\* resolveAuthId called with the two ids of a message (no caller in the
\* repository: the handler goes straight to getOrCreateLead).  Its
\* statements go through the pool.
ResolveAuthId(m) ==
  LET r == resolveAuthId(leads, interactions, m.userId, m.lid)
  IN /\ m.lid # Null
     /\ rowLock[m.userId] = 0
     /\ leads' = r.leads
     /\ interactions' = r.interactions
     /\ UNCHANGED <<redisVars, forms, rowLock, pc, localVars, hist>>

\* ------------------------------------------------------ webhook controllers
Min(a, b) == IF a < b THEN a ELSE b

\* the WAHA controller's sends for a handler result: the primary reply and,
\* in its .then, the secondary one; a send that fails ends the chain.
\* sendOk is the number of sends that would succeed.
wahaReplies(r, sendOk) ==
  IF r.shouldReply /\ r.replyMessage # Null
  THEN LET chain == IF r.secondaryMessage # Null
                    THEN <<r.replyMessage, r.secondaryMessage>>
                    ELSE <<r.replyMessage>>
       IN SubSeq(chain, 1, Min(sendOk, Len(chain)))
  ELSE <<>>

\* the Telegram controller's sends: result.replyMessage alone
telegramReplies(r, sendOk) ==
  IF r.shouldReply /\ r.replyMessage # Null
  THEN SubSeq(<<r.replyMessage>>, 1, Min(sendOk, 1))
  ELSE <<>>

sendReplies(m, r, sendOk) ==
  IF m.source = "telegram" THEN telegramReplies(r, sendOk) ELSE wahaReplies(r, sendOk)

\* a controller that lets the handler's error through to the framework
webhookResponse_Rethrow(m, r) ==
  IF unauthorized(m) THEN [status |-> 401, success |-> FALSE]
  ELSE IF r = Thrown THEN [status |-> 500, success |-> FALSE]
  ELSE [status |-> 200, success |-> TRUE]

\* the HTTP response of the webhook route: 401 from the WAHA secret check,
\* 200 {success: false} from the catch block, 200 {success: true} otherwise
webhookResponse(m, r) ==
  IF unauthorized(m) THEN [status |-> 401, success |-> FALSE]
  ELSE IF r = Thrown THEN [status |-> 200, success |-> FALSE]
  ELSE [status |-> 200, success |-> TRUE]

\* the WAHA controller's secret check: the request is answered before any
\* processing
Unauthorized(p) ==
  /\ pc[p] = "idle"
  /\ \A q \in Procs : q < p => pc[q] # "idle"
  /\ \E m \in inbox :
       /\ unauthorized(m)
       /\ msg' = [msg EXCEPT ![p] = m]
       /\ hist' = [hist EXCEPT ![p].outcome = "unauthorized",
                               ![p].http = webhookResponse(m, NoResult).status,
                               ![p].ok = webhookResponse(m, NoResult).success]
  /\ pc' = [pc EXCEPT ![p] = "done"]
  /\ UNCHANGED <<inbox, faults, redisVars, dbVars, attempt, lockValue, lead, validation,
                 tx, result>>

\* the rest of the webhook route once the handler (or processOutgoingWebhook)
\* has returned or thrown: the replies are sent without being awaited and
\* the request is answered.  A send that fails is a failure of the run.
Respond(p) ==
  LET m == msg[p]
      r == result[p]
      all == Len(sendReplies(m, r, 2))
  IN /\ pc[p] = "done"
     /\ hist[p].http = 0
     /\ m.source # "admin"
     /\ \E sendOk \in 0..all :
          /\ sendOk < all => faults < MaxFaults
          /\ faults' = IF sendOk < all THEN faults + 1 ELSE faults
          /\ hist' = [hist EXCEPT ![p].http = webhookResponse(m, r).status,
                                  ![p].ok = webhookResponse(m, r).success,
                                  ![p].sent = sendReplies(m, r, sendOk)]
     /\ UNCHANGED <<inbox, redisVars, dbVars, pc, msg, attempt, lockValue, lead, validation,
                    tx, result>>

\* ---------------------------------------------------------- Redis unreachable
\* A command rejects (the connection is down and maxRetriesPerRequest is
\* used up).  1. isMessageProcessed rejects inside checkIdempotency.
CheckIdempotencyDown(p) ==
  /\ faults < MaxFaults
  /\ faults' = faults + 1
  /\ CheckIdempotencyOn(p, FALSE)

\* 2. markMessageProcessed rejects: markAsProcessed logs and returns
MarkAsProcessedDown(p) ==
  /\ pc[p] = "mark"
  /\ faults < MaxFaults
  /\ faults' = faults + 1
  /\ hist' = [hist EXCEPT ![p].idemDown = TRUE]
  /\ pc' = [pc EXCEPT ![p] = "cooldown"]
  /\ UNCHANGED <<inbox, redisVars, dbVars, msg, attempt, lockValue, lead, validation, tx, result>>

\* 3. isUserInCooldown rejects: nothing catches it in the handler
IsUserInCooldownDown(p) ==
  /\ pc[p] = "cooldown"
  /\ faults < MaxFaults
  /\ faults' = faults + 1
  /\ result' = [result EXCEPT ![p] = Thrown]
  /\ hist' = [hist EXCEPT ![p].outcome = "threw"]
  /\ pc' = [pc EXCEPT ![p] = "done"]
  /\ UNCHANGED <<inbox, redisVars, dbVars, msg, attempt, lockValue, lead, validation, tx>>

\* 4. acquireLock rejects inside acquireLockWithRetry: the loop has no
\* catch and the call is made before the handler's try
AcquireLockDown(p) ==
  /\ pc[p] = "lock"
  /\ faults < MaxFaults
  /\ faults' = faults + 1
  /\ result' = [result EXCEPT ![p] = Thrown]
  /\ hist' = [hist EXCEPT ![p].outcome = "threw"]
  /\ pc' = [pc EXCEPT ![p] = "done"]
  /\ UNCHANGED <<inbox, redisVars, dbVars, msg, attempt, lockValue, lead, validation, tx>>

\* 7. releaseLock rejects in the finally block: the error replaces the
\* result about to be returned and the key stays until its TTL
ReleaseLockDown(p) ==
  /\ pc[p] = "release"
  /\ faults < MaxFaults
  /\ faults' = faults + 1
  /\ result' = [result EXCEPT ![p] = Thrown]
  /\ pc' = [pc EXCEPT ![p] = "done"]
  /\ UNCHANGED <<inbox, redisVars, dbVars, msg, attempt, lockValue, lead, validation, tx, hist>>

\* ----------------------------------------------------------------- key expiry
\* the lock key reaches its TTL (LOCK_TTL_SECONDS) while its holder is still
\* processing.  Only the next SET NX on the key can tell an expired key from
\* a held one, so the expiry is taken when an invocation is about to try.
ExpireLock(u) ==
  /\ lock[u] # 0
  /\ \E q \in Procs : pc[q] = "lock" /\ msg[q].userId = u
  /\ faults < MaxFaults
  /\ faults' = faults + 1
  /\ lock' = [lock EXCEPT ![u] = 0]
  /\ hist' = [hist EXCEPT ![lock[u]].lockLost = TRUE]
  /\ UNCHANGED <<processed, cooldown, sheetsQueue, notifyQueue, dbVars, pc, inbox, msg, attempt, lockValue, lead, validation, tx, result>>

\* a key stored without EX
expireKey_Never(stored) == stored

\* what Redis does to a key stored with EX ttl once the ttl has passed
expireKey(stored) == 0

\* the worker that runs the invocation dies while the invocation holds the
\* lock: its PostgreSQL connection closes (the open transaction is rolled
\* back), nothing is returned and releaseLock is never called.  One worker
\* dies in a run.
Crash(p) ==
  LET u == msg[p].userId
  IN /\ pc[p] \in {"getlead", "dispatch", "formwrite", "commit", "setcd", "release"}
     /\ lock[u] = p
     /\ \A q \in Procs : pc[q] # "crashed"
     /\ tx' = [tx EXCEPT ![p] = NoTx]
     /\ rowLock' = [rowLock EXCEPT ![u] = IF @ = p THEN 0 ELSE @]
     /\ validation' = [validation EXCEPT ![p] = NoValidation]
     /\ pc' = [pc EXCEPT ![p] = "crashed"]
     /\ UNCHANGED <<inbox, faults, redisVars, leads, forms, interactions, msg, attempt,
                    lockValue, lead, result, hist>>

\* the lock key of a crashed holder reaches its TTL
LockTTL(u) ==
  /\ lock[u] # 0
  /\ pc[lock[u]] = "crashed"
  /\ lock' = [lock EXCEPT ![u] = expireKey(@)]
  /\ hist' = [hist EXCEPT ![lock[u]].lockLost = lock'[u] = 0]
  /\ UNCHANGED <<processed, cooldown, sheetsQueue, notifyQueue, dbVars, pc, localVars>>

\* the cooldown key reaches its TTL (USER_COOLDOWN_SECONDS).  Only the next
\* EXISTS on the key can tell, so the expiry is taken when an invocation is
\* about to check.
ExpireCooldown(u) ==
  /\ cooldown[u]
  /\ \E q \in Procs : pc[q] = "cooldown" /\ msg[q].userId = u
  /\ cooldown' = [cooldown EXCEPT ![u] = FALSE]
  /\ UNCHANGED <<processed, lock, sheetsQueue, notifyQueue, dbVars, pc, localVars, hist>>

Next ==
  \/ \E p \in Procs : CheckIdempotency(p)
  \/ \E p \in Procs : MarkAsProcessed(p)
  \/ \E p \in Procs : ProcessOutgoingWebhook(p)
  \/ \E p \in Procs : MarkAsExisting(p)
  \/ \E p \in Procs : IsUserInCooldown(p)
  \/ \E p \in Procs : CooldownLog(p)
  \/ \E p \in Procs : AcquireLock(p)
  \/ \E p \in Procs : ProcessMessage(p)
  \/ \E p \in Procs : HandleByState(p)
  \/ \E p \in Procs : HandleFormStateRead(p)
  \/ \E p \in Procs : HandleFormStateWrite(p)
  \/ \E p \in Procs : Commit(p)
  \/ \E p \in Procs : TxFail(p)
  \/ \E p \in Procs : EnqueueFail(p)
  \/ \E p \in Procs : SetUserCooldown(p)
  \/ \E p \in Procs : ReleaseLock(p)
  \/ \E p \in Procs : PutLead(p)
  \/ \E p \in Procs : PutLeadState(p)
  \/ \E u \in Users : ExpireLock(u)
  \/ \E u \in Users : ExpireCooldown(u)

Spec == Init /\ [][Next]_vars

\* A burst: every request arrives within USER_COOLDOWN_SECONDS of the first
\* reply, so that no cooldown key expires during the run.
NextBurst ==
  \/ \E p \in Procs : CheckIdempotency(p)
  \/ \E p \in Procs : MarkAsProcessed(p)
  \/ \E p \in Procs : ProcessOutgoingWebhook(p)
  \/ \E p \in Procs : MarkAsExisting(p)
  \/ \E p \in Procs : IsUserInCooldown(p)
  \/ \E p \in Procs : CooldownLog(p)
  \/ \E p \in Procs : AcquireLock(p)
  \/ \E p \in Procs : ProcessMessage(p)
  \/ \E p \in Procs : HandleByState(p)
  \/ \E p \in Procs : HandleFormStateRead(p)
  \/ \E p \in Procs : HandleFormStateWrite(p)
  \/ \E p \in Procs : Commit(p)
  \/ \E p \in Procs : TxFail(p)
  \/ \E p \in Procs : EnqueueFail(p)
  \/ \E p \in Procs : SetUserCooldown(p)
  \/ \E p \in Procs : ReleaseLock(p)
  \/ \E p \in Procs : PutLead(p)
  \/ \E p \in Procs : PutLeadState(p)
  \/ \E u \in Users : ExpireLock(u)

\* The program on a clock whose millisecond may be read by two adds to the
\* notification queue.
NextClock ==
  \/ Next
  \/ \E p \in Procs : HandleByStateSameMs(p)

SpecClock == Init /\ [][NextClock]_vars

SpecBurst == Init /\ [][NextBurst]_vars

\* A burst on an event loop that runs every continuation that is ready: no
\* invocation waits forever at an await.
SpecBurstFair == SpecBurst /\ WF_vars(NextBurst)

\* The handler while Redis is unreachable for some of its commands;
\* PostgreSQL answers (apart from the logging transaction of the cooldown
\* branch) and no key reaches its TTL during the run.
NextOutage ==
  \/ \E p \in Procs : CheckIdempotency(p)
  \/ \E p \in Procs : CheckIdempotencyDown(p)
  \/ \E p \in Procs : MarkAsProcessed(p)
  \/ \E p \in Procs : MarkAsProcessedDown(p)
  \/ \E p \in Procs : ProcessOutgoingWebhook(p)
  \/ \E p \in Procs : MarkAsExisting(p)
  \/ \E p \in Procs : IsUserInCooldown(p)
  \/ \E p \in Procs : IsUserInCooldownDown(p)
  \/ \E p \in Procs : CooldownLog(p)
  \/ \E p \in Procs : AcquireLock(p)
  \/ \E p \in Procs : AcquireLockDown(p)
  \/ \E p \in Procs : ProcessMessage(p)
  \/ \E p \in Procs : HandleByState(p)
  \/ \E p \in Procs : HandleFormStateRead(p)
  \/ \E p \in Procs : HandleFormStateWrite(p)
  \/ \E p \in Procs : Commit(p)
  \/ \E p \in Procs : EnqueueFail(p)
  \/ \E p \in Procs : SetUserCooldown(p)
  \/ \E p \in Procs : ReleaseLock(p)
  \/ \E p \in Procs : ReleaseLockDown(p)

SpecOutage == Init /\ [][NextOutage]_vars

\* The webhook routes around the handler: the secret check, the handler
\* while Redis is unreachable for some of its commands, the replies and the
\* HTTP response.  What the route does after the handler has returned
\* depends on nothing but the handler's result, so it is taken as the next
\* step.
Unanswered(p) == pc[p] = "done" /\ hist[p].http = 0

NextTransport ==
  \/ \E p \in Procs : Respond(p)
  \/ /\ \A q \in Procs : ~Unanswered(q)
     /\ \/ \E p \in Procs : Unauthorized(p)
        \/ \E p \in Procs : CheckIdempotency(p)
        \/ \E p \in Procs : CheckIdempotencyDown(p)
        \/ \E p \in Procs : MarkAsProcessed(p)
        \/ \E p \in Procs : MarkAsProcessedDown(p)
        \/ \E p \in Procs : ProcessOutgoingWebhook(p)
        \/ \E p \in Procs : MarkAsExisting(p)
        \/ \E p \in Procs : IsUserInCooldown(p)
        \/ \E p \in Procs : IsUserInCooldownDown(p)
        \/ \E p \in Procs : CooldownLog(p)
        \/ \E p \in Procs : AcquireLock(p)
        \/ \E p \in Procs : AcquireLockDown(p)
        \/ \E p \in Procs : ProcessMessage(p)
        \/ \E p \in Procs : HandleByState(p)
        \/ \E p \in Procs : HandleFormStateRead(p)
        \/ \E p \in Procs : HandleFormStateWrite(p)
        \/ \E p \in Procs : Commit(p)
        \/ \E p \in Procs : EnqueueFail(p)
        \/ \E p \in Procs : SetUserCooldown(p)
        \/ \E p \in Procs : ReleaseLock(p)
        \/ \E p \in Procs : ReleaseLockDown(p)

SpecTransport == Init /\ [][NextTransport]_vars

\* The handler on workers that may die while they hold the lock.  Redis
\* removes a key stored with EX when its TTL has passed, whatever the
\* workers do: the expiry of a crashed holder's key is weakly fair.
NextCrash ==
  \/ \E p \in Procs : CheckIdempotency(p)
  \/ \E p \in Procs : MarkAsProcessed(p)
  \/ \E p \in Procs : IsUserInCooldown(p)
  \/ \E p \in Procs : CooldownLog(p)
  \/ \E p \in Procs : AcquireLock(p)
  \/ \E p \in Procs : ProcessMessage(p)
  \/ \E p \in Procs : HandleByState(p)
  \/ \E p \in Procs : HandleFormStateRead(p)
  \/ \E p \in Procs : HandleFormStateWrite(p)
  \/ \E p \in Procs : Commit(p)
  \/ \E p \in Procs : SetUserCooldown(p)
  \/ \E p \in Procs : ReleaseLock(p)
  \/ \E p \in Procs : Crash(p)
  \/ \E u \in Users : LockTTL(u)

SpecCrash ==
  /\ Init
  /\ [][NextCrash]_vars
  /\ \A u \in Users : WF_vars(LockTTL(u))

\* The same on an event loop that runs every continuation that is ready
\* (the backoff timers of acquireLockWithRetry included).
SpecCrashFair == SpecCrash /\ WF_vars(NextCrash)

\* The program with a caller of resolveAuthId for the messages that carry
\* both ids.
NextResolve ==
  \/ \E p \in Procs : CheckIdempotency(p)
  \/ \E p \in Procs : MarkAsProcessed(p)
  \/ \E p \in Procs : ProcessOutgoingWebhook(p)
  \/ \E p \in Procs : MarkAsExisting(p)
  \/ \E p \in Procs : IsUserInCooldown(p)
  \/ \E p \in Procs : CooldownLog(p)
  \/ \E p \in Procs : AcquireLock(p)
  \/ \E p \in Procs : ProcessMessage(p)
  \/ \E p \in Procs : HandleByState(p)
  \/ \E p \in Procs : HandleFormStateRead(p)
  \/ \E p \in Procs : HandleFormStateWrite(p)
  \/ \E p \in Procs : Commit(p)
  \/ \E p \in Procs : TxFail(p)
  \/ \E p \in Procs : EnqueueFail(p)
  \/ \E p \in Procs : SetUserCooldown(p)
  \/ \E p \in Procs : ReleaseLock(p)
  \/ \E p \in Procs : PutLead(p)
  \/ \E p \in Procs : PutLeadState(p)
  \/ \E u \in Users : ExpireLock(u)
  \/ \E u \in Users : ExpireCooldown(u)
  \/ \E m \in inbox : ResolveAuthId(m)

SpecResolve == Init /\ [][NextResolve]_vars

\* ------------------------------------------------------------------- claims
\* an invocation between its lock acquisition and the end of its transaction
InTx(p) == pc[p] \in {"getlead", "dispatch", "formwrite", "commit"}

\* C1: of two invocations that carry the same (source, messageId), run one
\* after the other or concurrently, at most one has a side effect on the
\* leads, the interactions, the form rows or the queues.
C1_AtMostOneSideEffect ==
  \A p, q \in Procs :
    (p # q /\ msg[p] # NoMsg /\ getIdempotencyKey(msg[p]) = getIdempotencyKey(msg[q]))
      => (hist[p].persisted = {} \/ hist[q].persisted = {})

\* C2 as stated: whatever the interleaving, lock expiry included, at most
\* one invocation for a user is between its lock acquisition and the end of
\* its transaction.
C2_NeverOverlap ==
  \A p, q \in Procs :
    (p # q /\ msg[p].userId = msg[q].userId) => ~(InTx(p) /\ InTx(q))

\* C2 amended: two invocations for one user are both between lock
\* acquisition and the end of their transaction only if the lock of one of
\* them reached its TTL while it was held.
C2_OverlapOnlyAfterExpiry ==
  \A p, q \in Procs :
    (p # q /\ msg[p].userId = msg[q].userId /\ InTx(p) /\ InTx(q))
      => (hist[p].lockLost \/ hist[q].lockLost)

C2_Witness ==
  \E p, q \in Procs :
    p # q /\ InTx(p) /\ InTx(q) /\ hist[p].lockLost /\ lock[msg[q].userId] = q

\* C3: a release deletes the lock key only if the key holds the caller's
\* token; otherwise it leaves the key, a new holder's token included, as it
\* is.
C3_ReleaseOnlyOwnToken ==
  [][\A p \in Procs :
       (pc[p] = "release" /\ pc'[p] = "done")
         => lock'[msg[p].userId] = IF lock[msg[p].userId] = lockValue[p]
                                   THEN 0 ELSE lock[msg[p].userId]]_vars

C3_Witness ==
  \E p \in Procs :
    /\ pc[p] = "done"
    /\ hist[p].lockLost
    /\ hist[p].relSaw \notin {-1, 0, lockValue[p]}
    /\ lock[msg[p].userId] = hist[p].relSaw

\* the state changes of a transaction start from the committed state of the
\* row, follow the transition table one after the other, and end in the
\* state that its COMMIT stores
C4_CommitFollowsTable ==
  \A p \in Procs :
    (pc[p] = "commit" /\ hist'[p].outcome = "commit" /\ tx[p].hops # <<>>)
      => LET h == tx[p].hops
             u == msg[p].userId
         IN /\ h[1][1] = leads[u].state
            /\ \A i \in 1..Len(h) : h[i][2] \in validTransitions[h[i][1]]
            /\ \A i \in 1..(Len(h) - 1) : h[i][2] = h[i + 1][1]
            /\ leads'[u].state = h[Len(h)][2]

\* C4: every state change made by updateLeadState goes from the state the
\* row held immediately before it to a state the transition table allows
\* from there, and no two invocations have uncommitted state changes on one
\* lead at the same time.
C4_UpdateStateOrdered ==
  /\ [](\A u \in Users :
          Cardinality({p \in Procs : msg[p].userId = u /\ tx[p].hops # <<>>}) <= 1)
  /\ [][C4_CommitFollowsTable]_vars

C4_Witness ==
  \E p, q \in Procs :
    /\ p # q
    /\ pc[p] = "commit" /\ Len(tx[p].hops) = 2 /\ rowLock[msg[p].userId] = p
    /\ pc[q] \in {"dispatch", "formwrite"}

\* C5: a form row stored with completed = true has all five fields filled.
C5_CompletedHasAllFields ==
  \A u \in Users :
    forms[u].completed => \A k \in FormFields : forms[u][k] # Null

\* C6: an incoming message processed for a lead in EXISTING,
\* MANUAL_INTERVENTION, FORM_COMPLETED or PARTNERSHIP gets shouldReply =
\* false and no outgoing interaction.
C6_NoReplyStates ==
  \A p \in Procs :
    (/\ pc[p] \in {"commit", "setcd", "release", "done"}
     /\ lockValue[p] # 0
     /\ ~msg[p].fromMe
     /\ lead[p].state \in {"EXISTING", "MANUAL_INTERVENTION", "FORM_COMPLETED", "PARTNERSHIP"})
      => /\ ~result[p].shouldReply
         /\ Interaction(p, "out") \notin interactions \cup tx[p].inter

C6_Witness ==
  \E p \in Procs :
    /\ pc[p] = "done"
    /\ ~msg[p].fromMe
    /\ lead[p].state \in {"EXISTING", "MANUAL_INTERVENTION", "FORM_COMPLETED", "PARTNERSHIP"}
    /\ hist[p].outcome = "commit"
    /\ Interaction(p, "in") \in interactions
    /\ result[p].success /\ ~result[p].shouldReply

\* C7: an invocation that acquired the lock has called releaseLock with its
\* own lock value by the time it returns, and does not leave its lock value
\* in the key, whether it committed, rolled back or failed after the commit.
C7_LockReleased ==
  \A p \in Procs :
    (pc[p] = "done" /\ lockValue[p] # 0)
      => /\ hist[p].relSaw # -1
         /\ lock[msg[p].userId] # lockValue[p]

C7_Witness ==
  \E p, q \in Procs :
    /\ pc[p] = "done" /\ hist[p].outcome = "rollback" /\ hist[p].relSaw = lockValue[p]
    /\ lockValue[p] # 0
    /\ pc[q] = "done" /\ hist[q].outcome = "commit" /\ hist[q].relSaw = lockValue[q]
    /\ lockValue[q] # 0

\* C8: when acquireLockWithRetry gives up, the handler returns success =
\* false with the lock error and the message is not marked processed.
C8_LockFailureNotMarked ==
  \A p \in Procs :
    (pc[p] = "done" /\ result[p].error = "Lock acquisition failed")
      => /\ ~result[p].success
         /\ getIdempotencyKey(msg[p]) \notin processed

\* C9 as stated: after a rollback of its transaction no job of the
\* invocation is in a queue.
C9_NoJobAfterRollback ==
  \A p \in Procs : hist[p].outcome = "rollback" => JobsOf(p) = {}

\* C9 amended: a job is in its queue from the enqueue call on and stays
\* there whether the transaction commits or rolls back; an invocation that
\* made no enqueue call has no job in a queue.
C9_JobsOutliveRollback ==
  \A p \in Procs : ("job" \in hist[p].persisted) <=> (JobsOf(p) # {})

C9_Witness ==
  \E p \in Procs :
    pc[p] = "done" /\ hist[p].outcome = "rollback" /\ JobsOf(p) # {}

\* C10: when a step of the transaction fails, the handler returns success =
\* false without a reply and no lead, interaction or form change of the
\* invocation stays stored.
C10_RollbackLeavesNothing ==
  \A p \in Procs :
    (pc[p] \in {"release", "done"} /\ hist[p].outcome = "rollback")
      => /\ ~result[p].success
         /\ ~result[p].shouldReply
         /\ hist[p].persisted \cap {"lead", "interaction", "form"} = {}

\* C11: after an enqueue has failed inside the transaction and the
\* transaction has been rolled back, the message is not marked processed, so
\* that a redelivery of it passes the idempotency check and is processed.
C11_EnqueueFailureRedeliverable ==
  \A p \in Procs :
    (pc[p] \in {"release", "done"} /\ result[p].error = "enqueue failed")
      => /\ hist[p].outcome = "rollback"
         /\ getIdempotencyKey(msg[p]) \notin processed

\* C12: a message given to handleInboundMessage again after its first
\* handling has returned is dropped: the second handling returns success
\* without a reply and leaves the leads, the form rows, the interactions and
\* both queues as they were.
C12_ReplayChangesNothing ==
  [][\A p, q \in Procs :
       (/\ p # q /\ pc[p] = "done"
        /\ msg[p].source # "admin" /\ ~msg[p].fromMe
        /\ pc[q] = "idle" /\ pc'[q] # "idle" /\ msg'[q] = msg[p])
         => /\ pc'[q] = "done"
            /\ result'[q].success /\ ~result'[q].shouldReply
            /\ result'[q].replyMessage = Null
            /\ <<leads, forms, interactions, sheetsQueue, notifyQueue>>'
                 = <<leads, forms, interactions, sheetsQueue, notifyQueue>>]_vars

C12_Witness ==
  \E p, q \in Procs :
    /\ p # q /\ msg[q] = msg[p]
    /\ pc[p] = "done" /\ hist[p].outcome = "commit"
    /\ {"lead", "interaction", "job"} \subseteq hist[p].persisted
    /\ pc[q] = "done" /\ hist[q].outcome = "replay" /\ hist[q].persisted = {}
    /\ result[q].success /\ ~result[q].shouldReply

\* C13: an invocation that returns shouldReply = true has set the cooldown
\* key of its user before it returns.
C13_ReplyImpliesCooldownSet ==
  \A p \in Procs :
    (pc[p] \in {"release", "done"} /\ result[p].shouldReply) => hist[p].cdSet

C13_Witness ==
  \E p, q \in Procs :
    /\ pc[p] = "done" /\ result[p].shouldReply /\ hist[p].cdSet
    /\ pc[q] = "done" /\ hist[q].outcome = "commit" /\ result[q].error = "error"
    /\ ~hist[q].cdSet

\* C14 (under SpecBurst): of the distinct messages a user sends in a burst,
\* at most one gets a reply.
C14_OneReplyPerBurst ==
  \A p, q \in Procs :
    (/\ p # q /\ msg[p].userId = msg[q].userId
     /\ msg[p].messageId # msg[q].messageId
     /\ pc[p] = "done" /\ pc[q] = "done")
      => ~(result[p].shouldReply /\ result[q].shouldReply)

C16_EscalationJobs(p, reason) ==
  {j \in notifyQueue : j.inv = p /\ j.type = "escalation" /\ j.reason = reason}

\* C16: an invalid input handled for a lead stored in CHOOSE_OPTION with
\* warning count k < 3 stores k + 1; below 3 the lead stays in CHOOSE_OPTION
\* (reply INVALID_OPTION, no job), at 3 it goes to MANUAL_INTERVENTION with
\* exactly one escalation job of reason max_warnings and the reply
\* ESCALATION_NOTICE.  From 0 the three inputs give 1, 2, 3.
C16_ThreeWarningsEscalate ==
  [][\A p \in Procs :
       LET u == msg[p].userId
           k == leads[u].warning_count
       IN (/\ pc[p] = "commit" /\ hist'[p].outcome = "commit"
           /\ lead[p].state = "CHOOSE_OPTION" /\ trim(msg[p].text) \notin {"1", "2", "3"}
           /\ leads[u].state = "CHOOSE_OPTION" /\ k < MAX_WARNINGS)
            => /\ leads'[u].warning_count = k + 1
               /\ IF k + 1 < MAX_WARNINGS
                  THEN /\ leads'[u].state = "CHOOSE_OPTION"
                       /\ result[p].replyMessage = "INVALID_OPTION"
                       /\ JobsOf(p) = {}
                  ELSE /\ leads'[u].state = "MANUAL_INTERVENTION"
                       /\ result[p].replyMessage = "ESCALATION_NOTICE"
                       /\ Cardinality(C16_EscalationJobs(p, "max_warnings")) = 1
                       /\ JobsOf(p) = C16_EscalationJobs(p, "max_warnings")
               /\ result[p].success /\ result[p].shouldReply]_vars

C16_Witness ==
  \E p, q \in Procs :
    /\ pc[p] = "done" /\ result[p].replyMessage = "INVALID_OPTION"
    /\ pc[q] = "done" /\ result[q].replyMessage = "ESCALATION_NOTICE"
    /\ msg[p].messageId # msg[q].messageId
    /\ leads[msg[q].userId] = LeadRow("MANUAL_INTERVENTION", 3, "Budi")
    /\ Cardinality(notifyQueue) = 1 /\ JobsOf(q) = notifyQueue
    /\ faults = 0

\* the stored leads whose user_id or alt_id is one of the two ids of a message
C20_LeadsOf(m) ==
  {u \in UserIds :
     /\ leads[u].present
     /\ {u, leads[u].alt_id} \cap {m.userId, m.lid} # {}}

\* C20: after a message that carries a phone id and a LID has been
\* processed, at most one lead is stored under either of the two ids.
C20_OneLeadPerIdentity ==
  \A p \in Procs :
    (pc[p] = "done" /\ msg[p].lid # Null /\ hist[p].outcome = "commit")
      => Cardinality(C20_LeadsOf(msg[p])) <= 1

\* C17: every stored lead has a warning count between 0 and 3.
C17_WarningCountAtMostThree ==
  \A u \in Users : leads[u].warning_count \in 0..MAX_WARNINGS

\* C18: a markAsExisting call creates the lead in EXISTING when none is
\* stored, moves a stored NEW lead to EXISTING, and leaves a lead stored in
\* any other state as it is, whatever the handler does in between.
C18_MarkExistingOnlyFromNew ==
  [][\A p \in Procs :
       (pc[p] \in {"idle", "markexisting"} /\ pc'[p] = "done" /\ msg'[p].fromMe)
         => LET u == msg'[p].userId
            IN leads'[u] = IF ~leads[u].present THEN LeadRow("EXISTING", 0, Null)
                           ELSE IF leads[u].state = "NEW"
                                THEN [leads[u] EXCEPT !.state = "EXISTING"]
                                ELSE leads[u]]_vars

\* C19: for an outgoing message the pipeline has called markAsExisting,
\* stored exactly one outgoing interaction of the lead, and returned success
\* without a reply.
C19_OutgoingLogged ==
  \A p \in Procs :
    (pc[p] = "done" /\ msg[p].fromMe)
      => /\ hist[p].outcome = "outgoing"
         /\ Cardinality({i \in interactions :
                           i.message_id = msg[p].messageId /\ i.direction = "out"}) = 1
         /\ result[p].success /\ ~result[p].shouldReply

\* the stored interactions without the lead they belong to
C21_Recorded == {<<i.message_id, i.direction, i.inv>> : i \in interactions}

\* C21 (under SpecResolve): no step of the handler, of markAsExisting or of
\* resolveAuthId removes or alters a stored interaction.
C21_InteractionsOnlyGrow ==
  [][C21_Recorded \subseteq C21_Recorded']_vars

\* C22 (under SpecOutage): a failed command on the cooldown key or on the
\* lock key does not make the handler throw: every invocation that ends has
\* returned a result.
C22_StoreFailureTolerated ==
  \A p \in Procs : pc[p] = "done" => result[p].returned

\* C23 (under SpecOutage): when the EXISTS of the idempotency check rejects,
\* the check answers "not processed" and the handler goes on to mark the
\* message; when the SETEX of the mark rejects, the handler goes on to the
\* cooldown check without a result and without the key; an invocation that
\* met either failure is never dropped as a duplicate.
C23_IdempotencyFailsOpen ==
  /\ [][\A p \in Procs :
          /\ (pc[p] = "idle" /\ pc'[p] # "idle" /\ faults' # faults)
               => (pc'[p] = "mark" /\ result'[p] = NoResult)
          /\ (pc[p] = "mark" /\ pc'[p] # "mark" /\ faults' # faults)
               => (pc'[p] = "cooldown" /\ result'[p] = NoResult
                   /\ processed' = processed)]_vars
  /\ [](\A p \in Procs :
          hist[p].idemDown => hist[p].outcome \notin {"duplicate", "replay"})

C23_Witness ==
  \E p, q \in Procs :
    /\ p # q /\ msg[p] = msg[q]
    /\ hist[p].idemDown
    /\ pc[p] = "done" /\ hist[p].outcome = "commit" /\ result[p].success
    /\ "interaction" \in hist[p].persisted
    /\ pc[q] = "done" /\ hist[q].outcome = "commit"

\* C25: an incoming message processed for a lead in FORM_COMPLETED (in
\* PARTNERSHIP) enqueues an escalation job of reason post_form_contact
\* (partnership_followup) and is answered with QUESTION_RECEIVED.
C25_CompletedEscalates ==
  \A p \in Procs :
    (/\ pc[p] = "done" /\ hist[p].outcome = "commit" /\ ~msg[p].fromMe
     /\ lead[p].state \in {"FORM_COMPLETED", "PARTNERSHIP"})
      => /\ \E j \in notifyQueue :
              /\ j.inv = p /\ j.type = "escalation"
              /\ j.reason = IF lead[p].state = "FORM_COMPLETED"
                            THEN "post_form_contact" ELSE "partnership_followup"
         /\ result[p].replyMessage = "QUESTION_RECEIVED"

C28_Supplied(p) ==
  LET u == msg[p].userId
  IN {k \in FormFields : forms[u][k] # Null}
       \cup (DOMAIN parseFormData(msg[p].text))
       \cup UNION {DOMAIN parseFormData(msg[q].text) :
                     q \in {r \in Procs : /\ r # p /\ msg[r].userId = u
                                           /\ hist[r].outcome = "commit"
                                           /\ lead[r].state \in FormStates}}

\* C28: when a message is committed in a form state for a lead that has not
\* been escalated, and the fields supplied to the lead so far, that
\* message's included, cover all five, the commit stores FORM_COMPLETED.
C28_FieldsAccumulate ==
  [][\A p \in Procs :
       LET u == msg[p].userId
       IN (/\ pc[p] = "commit" /\ hist'[p].outcome = "commit"
           /\ lead[p].state \in FormStates /\ leads[u].state \in FormStates
           /\ C28_Supplied(p) = FormFields)
            => leads'[u].state = "FORM_COMPLETED"]_vars

\* the lock key of the user holds the lock value of a crashed invocation
C24_HeldByCrashed(u) == lock[u] # 0 /\ pc[lock[u]] = "crashed"

\* C24 (under SpecCrash): a lock key left behind by a crashed holder does
\* not stay: it is eventually gone, so that the next SET NX for the user
\* succeeds.
C24_CrashedLockExpires ==
  \A u \in Users : C24_HeldByCrashed(u) ~> (lock[u] = 0)

C24_Witness ==
  \E p, q \in Procs :
    /\ pc[p] = "crashed" /\ hist[p].lockLost
    /\ q # p /\ msg[q].userId = msg[p].userId
    /\ lock[msg[q].userId] = q /\ pc[q] = "getlead"

\* C29 (under SpecTransport): when the handler has returned a reply with a
\* secondary message and no send has failed, the controller has sent the
\* primary reply and then the secondary one.
C29_SecondaryAfterPrimary ==
  \A p \in Procs :
    (/\ hist[p].http # 0 /\ faults = 0
     /\ result[p].shouldReply /\ result[p].secondaryMessage # Null)
      => hist[p].sent = <<result[p].replyMessage, result[p].secondaryMessage>>

C31_Dispatched(p) == hist[p].outcome \in {"commit", "rollback"}

C31_BurstEventuallyDispatched ==
  \A p \in Procs : (pc[p] = "cdlog") ~> (C31_Dispatched(p) \/ faults > 0)

\* C32: the row that upsertFormData writes holds, for each of the five form
\* fields, the value parsed from the message where there is one and the
\* stored value otherwise; a stored value never becomes null.
C32_FieldwiseMerge ==
  [][\A p \in Procs :
       LET u == msg[p].userId
           partial == parseFormData(msg[p].text)
       IN (pc[p] = "formwrite" /\ pc'[p] = "commit")
            => \A k \in FormFields :
                 /\ tx'[p].form[k] = COALESCE(Get(partial, k), forms[u][k])
                 /\ forms[u][k] # Null => tx'[p].form[k] # Null]_vars

\* the state that p's next step asks updateLeadState for, outside the
\* escalation step (Null when it asks for none)
C33_Requested(p) ==
  CASE pc[p] = "dispatch" /\ lead[p].state = "NEW" -> "CHOOSE_OPTION"
    [] pc[p] = "dispatch" /\ lead[p].state = "CHOOSE_OPTION" /\ msg[p].text = "1" -> "FORM_SENT"
    [] pc[p] = "dispatch" /\ lead[p].state = "FORM_SENT" -> "FORM_IN_PROGRESS"
    [] pc[p] = "formwrite" /\ validation[p].valid -> "FORM_COMPLETED"
    [] OTHER -> Null

\* the state of the lead row as p's transaction sees it
C33_Current(p) ==
  IF tx[p].leadW THEN tx[p].lead.state ELSE leads[msg[p].userId].state

\* C33: when a step of the handler outside the escalation asks updateLeadState
\* for a transition that the table does not contain, the stored lead, form
\* and interactions stay as they are, the transaction is rolled back, and
\* the handler returns success = false without a reply.
C33_InvalidTransitionRollsBack ==
  [][\A p \in Procs :
       /\ (/\ C33_Requested(p) # Null
           /\ leads[msg[p].userId].present
           /\ C33_Requested(p) \notin validTransitions[C33_Current(p)]
           /\ pc'[p] # pc[p])
            => /\ leads' = leads /\ forms' = forms /\ interactions' = interactions
               /\ tx'[p] = NoTx
               /\ hist'[p].outcome = "rollback"
               /\ ~result'[p].success /\ ~result'[p].shouldReply
       /\ (pc'[p] = "done" /\ hist'[p].outcome = "rollback")
            => /\ ~result'[p].success /\ ~result'[p].shouldReply
               /\ Interaction(p, "in") \notin interactions']_vars

C33_Witness ==
  \E p \in Procs :
    /\ pc[p] = "done" /\ hist[p].outcome = "rollback" /\ faults = 0
    /\ lead[p].state = "NEW" /\ leads[msg[p].userId].state # "NEW"
    /\ ~result[p].success

\* C34 (under SpecCrashFair): acquireLockWithRetry makes at most MAX_RETRIES
\* attempts; the attempt that finds the key free stores and returns the
\* invocation's own lock value; it returns no lock exactly when MAX_RETRIES
\* attempts have failed; and it always returns: in the end no invocation
\* is left in the loop.
C34_RetryBounded ==
  /\ [][\A p \in Procs :
          /\ attempt'[p] <= MAX_RETRIES
          /\ pc'[p] = "lock" => attempt'[p] < MAX_RETRIES
          /\ (result'[p].error = "Lock acquisition failed") <=> (attempt'[p] = MAX_RETRIES)
          /\ attempt'[p] = MAX_RETRIES => lockValue'[p] = 0
          /\ (pc[p] = "lock" /\ pc'[p] # "lock")
               => IF lock[msg[p].userId] = 0
                  THEN /\ pc'[p] = "getlead"
                       /\ lockValue'[p] # 0 /\ lock'[msg[p].userId] = lockValue'[p]
                  ELSE /\ pc'[p] = "done" /\ attempt'[p] = MAX_RETRIES
                       /\ lock' = lock /\ lockValue'[p] = 0]_vars
  /\ <>[](\A p \in Procs : pc[p] # "lock")

C34_Witness ==
  \E p, q \in Procs :
    /\ pc[p] = "done" /\ attempt[p] = MAX_RETRIES
    /\ result[p].error = "Lock acquisition failed"
    /\ pc[q] = "crashed" /\ msg[q].userId = msg[p].userId

\* C35: every state change that a handler invocation commits starts from
\* the state stored at that moment and follows the transition table, and the
\* invocation had dispatched on that very state: an invocation that
\* dispatched on a state which another invocation has replaced since commits
\* no state change.
C35_StaleDispatchRejected ==
  [][\A p \in Procs :
       LET u == msg[p].userId
       IN (/\ pc[p] = "commit" /\ hist'[p].outcome = "commit"
           /\ ~msg[p].fromMe /\ msg[p].source # "admin"
           /\ leads'[u].state # leads[u].state)
            => /\ leads'[u].state \in validTransitions[leads[u].state]
                    \/ tx[p].hops[1][2] \in validTransitions[leads[u].state]
               /\ lead[p].state = leads[u].state]_vars

\* a step of an admin route
C36_Admin ==
  \E p \in Procs : pc[p] = "idle" /\ pc'[p] = "done" /\ msg'[p].source = "admin"

\* the step changes the state of the stored lead u
C36_Changed(u) ==
  leads[u].present /\ leads'[u].present /\ leads'[u].state # leads[u].state

\* the change is a pair of the table, or the two pairs that one transaction
\* has made one after the other
C36_InTable(u) ==
  \/ leads'[u].state \in validTransitions[leads[u].state]
  \/ \E p \in Procs :
       LET h == tx[p].hops
       IN /\ pc[p] = "commit" /\ msg[p].userId = u /\ Len(h) = 2
          /\ h[1][1] = leads[u].state /\ h[1][2] \in validTransitions[h[1][1]]
          /\ h[2][1] = h[1][2] /\ h[2][2] \in validTransitions[h[2][1]]
          /\ leads'[u].state = h[2][2]

\* the change is markAsExisting's UPDATE for a lead it has read in NEW
C36_MarkedExisting(u) ==
  \E p \in Procs :
    /\ pc[p] = "markexisting" /\ pc'[p] = "done" /\ msg[p].userId = u
    /\ lead[p].state = "NEW" /\ leads'[u].state = "EXISTING"

\* a lead that appears under u is a new one (in NEW or in EXISTING) or, in
\* resolveAuthId, the lead of another id with the state it had
C36_Appears(u) ==
  (~leads[u].present /\ leads'[u].present)
    => IF \E p \in Procs : pc'[p] # pc[p]
       THEN leads'[u].state \in {"NEW", "EXISTING"}
       ELSE \E a \in UserIds :
              /\ leads[a].present /\ ~leads'[a].present
              /\ leads'[u].state = leads[a].state

\* C36 as stated (under SpecResolve): every change of a stored lead's state
\* made by updateLeadState, markAsExisting or resolveAuthId is a pair of the
\* transition table.
C36_EveryChangeInTable ==
  [][~C36_Admin => \A u \in UserIds : C36_Changed(u) => C36_InTable(u)]_vars

\* C36 amended: every change of a stored lead's state is a pair of the
\* transition table, except markAsExisting's, which writes EXISTING over a
\* lead it has read in NEW; resolveAuthId changes no state.
C36_TableOrMarkExisting ==
  [][~C36_Admin =>
       \A u \in UserIds :
         /\ C36_Changed(u) => (C36_InTable(u) \/ C36_MarkedExisting(u))
         /\ C36_Appears(u)]_vars

C36_Witness ==
  \E p, q \in Procs :
    /\ pc[p] = "done" /\ msg[p].fromMe /\ hist[p].outcome = "outgoing"
    /\ "lead" \in hist[p].persisted
    /\ msg[q].userId = msg[p].userId /\ ~msg[q].fromMe
    /\ lead[q].state = "NEW" /\ "lead" \in hist[q].persisted
    /\ leads[msg[p].userId].state = "EXISTING"

\* C37: when the transaction of an invocation has committed with a reply,
\* the step after the commit (setUserCooldown) leaves that result as it is:
\* the handler returns success with the reply, whether or not the cooldown
\* key could be written.
C37_CommittedReplyReturned ==
  [][\A p \in Procs :
       (pc[p] = "setcd" /\ hist[p].outcome = "commit" /\ pc'[p] # "setcd")
         => /\ result'[p].success /\ result'[p].shouldReply
            /\ result'[p].replyMessage = result[p].replyMessage]_vars

\* C38: an escalation job of reason max_warnings carries the warning count
\* that made the lead escalate, which is at least MAX_WARNINGS.
C38_EscalationCarriesCount ==
  \A j \in notifyQueue :
    (j.type = "escalation" /\ j.reason = "max_warnings")
      => j.warningCount >= MAX_WARNINGS

\* C39 (under SpecClock): every notification that an invocation has enqueued
\* is a job of its own in the queue, whatever the clock read at the add.
C39_EveryEnqueueQueued ==
  [][\A p \in Procs :
       (/\ pc[p] = "dispatch" /\ pc'[p] = "commit"
        /\ "job" \in hist'[p].persisted)
         => \E j \in notifyQueue' \ notifyQueue : j.inv = p]_vars

\* C40 (under SpecTransport): a WAHA request that does not carry the
\* configured secret creates no lead, changes no lead and gets no reply.
C40_NoSecretNoEffect ==
  \A p \in Procs :
    (pc[p] = "done" /\ msg[p].source = "whatsapp" /\ ~msg[p].secret)
      => /\ "lead" \notin hist[p].persisted
         /\ hist[p].sent = <<>>

====
